---- MODULE Spec2Model ----
(***************************************************************************)
(* Bias Quell: the toggle coordinator (background.js and its revision with *)
(* a tab check), the content script (content.js, the batched revision, and *)
(* the sequential "Process All" revision with a proofreader) and the popup *)
(* toggle, as one state machine; and the context-menu pipeline of           *)
(* service-worker.js, whose state is apart from theirs.                    *)
(*                                                                         *)
(* Each script context is single threaded: an action is one run of a       *)
(* handler from one suspension point (an await, a callback) to the next.   *)
(* The page is a flat list of text units: no selected element contains     *)
(* another selected element.                                               *)
(***************************************************************************)
EXTENDS Integers, Sequences, FiniteSets, TLC

----------------------------------------------------------------------------
(* Bounds of the model *)

\* Units (elements matching TARGET_SELECTORS) on a page of the concurrent specification
MaxUnits == 1
\* Units on a page of the serial specification
MaxPage == 37
\* TOGGLE_QUELL requests issued in one behaviour
MaxToggles == 3
\* TOGGLE_QUELL requests in flight at once
MaxInFlight == 2
\* Rewrite requests the rewriter may answer otherwise than with a clean new text
MaxFaults == 1
\* Units on a page of the specification of the pointer
MaxHoverUnits == 2
\* Context-menu clicks in one behaviour of the service worker
MaxClicks == 2
\* Chunks in one stream of the service worker's AI calls
MaxChunks == 2

(* Program constants *)

MIN_TEXT_LENGTH == 30
BATCH_SIZE == 15
SEQ_MIN_TEXT_LENGTH == 15
AI_BATCH_SIZE == 15
SW_MIN_TEXT_LENGTH == 50

----------------------------------------------------------------------------
VARIABLES
    rev,              \* which revision of the scripts is installed
    hasRewriter,      \* 'Rewriter' in self, in the content script
    storage,          \* chrome.storage.local: <<isQuellActive>>, <<>> before it is set
    dom,              \* dom[s]: the elements that have occupied slot s, the last one attached
    hover,            \* the slot the pointer is over, 0 for none
    rewriter,         \* content script: the rewriter handle, 0 for null
    sessions,         \* number of Rewriter sessions created so far
    proofreader,      \* content script, sequential revision: the proofreader handle
    hasProofreader,   \* 'Proofreader' in self, in the content script
    originalTextMap,  \* content script: the ledger, in insertion order
    faults,           \* rewrite answers other than a clean new text still possible
    bg,               \* bg[r]: the background's handler of toggle request r
    cs,               \* cs[r]: the content script's handler of request r
    popup,            \* the popup's toggle button
    ended,            \* the handlers of the request that ended last, as they ended
    worker,           \* service worker: worker[i], the handler of context-menu click i
    tab               \* service worker: the messages sent to the tab, in order

\* The state of the service worker
workerVars == <<worker, tab>>

\* The state of the toggle's scripts
toggleVars == <<rev, hasRewriter, hasProofreader, storage, dom, hover, rewriter,
                proofreader, sessions, originalTextMap, faults, bg, cs, popup, ended>>

vars == <<toggleVars, workerVars>>

----------------------------------------------------------------------------
(* Values *)

Null == 0
Undefined == 0 - 1
Fail == [pad |-> 0, len |-> 0, ver |-> Undefined]

HIGHLIGHT_COLOR == "#ffffe0"
BIASED_COLOR == "#f8d7da"

\* A text: len characters after trimming, pad whitespace characters around
\* them, and ver, the wording (0: the page author's, k: rewritten k times).
Text(p, l, v) == [pad |-> p, len |-> l, ver |-> v]

\* String.prototype.trim
Trim(t) == [t EXCEPT !.pad = 0]

\* String.prototype.length
Length(t) == t.len + t.pad

Min(a, b) == IF a <= b THEN a ELSE b

\* The minimum length of the installed revision
MinLength(r) == IF r = "batched" THEN MIN_TEXT_LENGTH ELSE SEQ_MIN_TEXT_LENGTH

\* The texts a page of the concurrent specification is made of: one at the
\* threshold, with and without whitespace around it, and one that is below
\* the threshold only when it is trimmed.
PageTexts(r) ==
    {Text(0, MinLength(r), 0), Text(1, MinLength(r), 0), Text(1, MinLength(r) - 1, 0)}

\* What rewriter.rewrite(t) can resolve with (length: 'as-is'): the same
\* wording or a new one, with or without surrounding whitespace, or a new
\* wording that is one character shorter.
RewriteOutputs(t) ==
    {Text(p, t.len, v) : p \in 0..1, v \in {t.ver, t.ver + 1}}
        \cup {Text(0, t.len - 1, t.ver + 1)}

\* The answer that costs no fault: a new wording, one character shorter,
\* no whitespace around it
CleanOutput(t) == Text(0, t.len - 1, t.ver + 1)

----------------------------------------------------------------------------
(* The page *)

Slots == 1..Len(dom)

\* An element is <<slot, generation>>; the attached one is the last generation
Attached(d, e) == e[2] = Len(d[e[1]])
Current(d, s) == <<s, Len(d[s])>>
El(d, e) == d[e[1]][e[2]]

NewElement(t) == [text |-> t, bg |-> "", hov |-> <<>>]

\* document.querySelectorAll(TARGET_SELECTORS.join(',')): the attached
\* elements in document order
querySelectorAll(d) == [s \in 1..Len(d) |-> Current(d, s)]

(* The ledger: a Map from element to text, in insertion order *)

MapHas(m, e) == \E i \in 1..Len(m) : m[i].key = e
MapGet(m, e) == (CHOOSE i \in 1..Len(m) : m[i].key = e)
MapVal(m, e) == m[MapGet(m, e)].val
MapSet(m, e, v) ==
    IF MapHas(m, e)
    THEN [m EXCEPT ![MapGet(m, e)].val = v]
    ELSE Append(m, [key |-> e, val |-> v])
MapKeys(m) == {m[i].key : i \in 1..Len(m)}

----------------------------------------------------------------------------
(* Responses *)

Success(n, a) == [success |-> TRUE, changesMade |-> n, error |-> "", action |-> a]
Failure(msg) == [success |-> FALSE, changesMade |-> Undefined, error |-> msg, action |-> ""]

\* The content script's handler before RUN_FULL_QUELL reaches it
IdleRun ==
    [pc |-> "none", isActive |-> FALSE, els |-> <<>>, i |-> 0, batch |-> <<>>,
     origs |-> <<>>, results |-> <<>>, count |-> 0, psy |-> 0, resp |-> <<>>,
     issued |-> <<>>, yields |-> 0, applied |-> {}, failed |-> {}, same |-> {},
     added |-> 0, pfailed |-> {}]

----------------------------------------------------------------------------
(* content.js: the batched revision *)

\* The listeners with the original text restored on mouseleave
setupHoverEventsOriginal(el, originalText) ==
    [el EXCEPT !.hov = Append(@, [orig |-> originalText, neutral |-> originalText])]

\* content.js 32-42: the two listeners, with the texts they close over
setupHoverEvents(el, originalText) ==
    [el EXCEPT !.hov = Append(@, [orig |-> originalText, neutral |-> el.text])]

\* The selector's test with the minimum length itself left out
QualifiesAboveMinimum(d, m, e) ==
    LET originalText == Trim(El(d, e).text)
    IN  Length(originalText) > MIN_TEXT_LENGTH /\ ~MapHas(m, e)

\* The selector's test without the look into the ledger
QualifiesInLedger(d, m, e) ==
    LET originalText == Trim(El(d, e).text)
    IN  Length(originalText) >= MIN_TEXT_LENGTH

\* content.js 52-53: the selector's test of one element
Qualifies(d, m, e) ==
    LET originalText == Trim(El(d, e).text)
    IN  Length(originalText) >= MIN_TEXT_LENGTH /\ ~MapHas(m, e)

\* Every element the selectors match, with no test
elementsUnfiltered(d, m) == querySelectorAll(d)

\* content.js 47-56: elementsForBatching
elementsForBatching(d, m) ==
    SelectSeq(querySelectorAll(d), LAMBDA e : Qualifies(d, m, e))

\* The test of a result without its skip flag
SkippedWhenSame(c, k) ==
    Trim(c.results[k]) = c.origs[k]

\* The test of a result without the comparison of the texts
SkippedOnFailure(c, k) ==
    c.results[k] = Fail

\* content.js 86: a result that changes nothing
Skipped(c, k) ==
    c.results[k] = Fail \/ Trim(c.results[k]) = c.origs[k]

\* content.js 91-94: the change of one element
Mutate(el, originalText, finalNeutralText) ==
    setupHoverEvents(
        [el EXCEPT !.text = finalNeutralText, !.bg = HIGHLIGHT_COLOR],
        originalText)

\* The page left as it is when the results of a batch come in
ApplyDomDeferred(d, c) == d

\* content.js 85-96 on the page: every element of the batch with a result that counts
ApplyDom(d, c) ==
    [s \in 1..Len(d) |->
        [g \in 1..Len(d[s]) |->
            IF \E k \in 1..Len(c.batch) : c.batch[k] = <<s, g>> /\ ~Skipped(c, k)
            THEN LET k == CHOOSE k \in 1..Len(c.batch) : c.batch[k] = <<s, g>>
                 IN  Mutate(d[s][g], c.origs[k], Trim(c.results[k]))
            ELSE d[s][g]]]

\* content.js 85-96 on the ledger, in the order of the results
RECURSIVE ApplyLedger(_, _, _)
ApplyLedger(m, c, k) ==
    IF k > Len(c.batch) THEN m
    ELSE ApplyLedger(IF Skipped(c, k) THEN m ELSE MapSet(m, c.batch[k], c.origs[k]),
                     c, k + 1)

\* content.js 95: the units of the batch that were counted
AppliedUnits(c) == {c.batch[k] : k \in {j \in 1..Len(c.batch) : ~Skipped(c, j)}}

\* content.js 75-78: the units of the batch whose request was rejected
FailedUnits(c) == {c.batch[k] : k \in {j \in 1..Len(c.batch) : c.results[j] = Fail}}

\* content.js 86: the units of the batch whose final text, trimmed, is the
\* text the request was issued with
SameUnits(c) ==
    {c.batch[k] : k \in {j \in 1..Len(c.batch) :
                            c.results[j] # Fail /\ Trim(c.results[j]) = c.origs[j]}}

\* The handler's async function has returned: the locals of its loop are gone
Ended(c) ==
    [c EXCEPT !.pc = "done", !.i = 0, !.batch = <<>>, !.origs = <<>>,
              !.results = <<>>, !.psy = 0]

\* content.js 149-152: the handler's catch
Caught(c) ==
    [Ended(c) EXCEPT !.resp = Append(@, Failure("Critical execution error"))]

\* content.js 104-105, 144: the run returns its count and the handler answers
Activated(c) ==
    [Ended(c) EXCEPT !.resp = Append(@, Success(c.count, "ACTIVATED"))]

\* content.js 62-82: the batch starting at i is issued, each request with the
\* element's trimmed text of that moment; rewriter.rewrite on a null
\* handle throws, and the handler's catch answers.
IssueBatch(c, i, d, rw) ==
    LET batch == SubSeq(c.els, i + 1, Min(i + BATCH_SIZE, Len(c.els)))
    IN  IF rw = Null
        THEN Caught(c)
        ELSE [c EXCEPT !.pc = "batch", !.i = i, !.batch = batch,
                       !.origs = [k \in 1..Len(batch) |-> Trim(El(d, batch[k]).text)],
                       !.results = <<>>,
                       !.issued = Append(@, batch)]

\* content.js 61: the loop test
LoopContinues(c, i) == i < Len(c.els)

\* content.js 61-82, 104-105: the loop at its test with index i: the next
\* batch is issued, or the run returns its count
LoopFrom(c, i, d, rw) ==
    IF LoopContinues(c, i) THEN IssueBatch(c, i, d, rw) ELSE Activated(c)

\* content.js 45-82: quellBiasOnPage up to its first await
quellBiasOnPage(c, d, m, rw) ==
    LoopFrom([c EXCEPT !.els = elementsForBatching(d, m), !.count = 0], 0, d, rw)

\* A yield after every batch, the last one too
YieldAfterEveryBatch(c) == c.i + BATCH_SIZE <= Len(c.els)

\* content.js 99: a yield follows the batch
YieldFollows(c) == c.i + BATCH_SIZE < Len(c.els)

\* The replay with clones that keep the listeners of their elements
RevertDomWithListeners(d, m) ==
    [s \in 1..Len(d) |->
        IF MapHas(m, Current(d, s))
        THEN Append(d[s], [text |-> MapVal(m, Current(d, s)), bg |-> "transparent",
                           hov |-> El(d, Current(d, s)).hov])
        ELSE d[s]]

\* content.js 109-121: the page after the replay of the ledger; an entry
\* whose element has no parent is passed over.
RevertDom(d, m) ==
    [s \in 1..Len(d) |->
        IF MapHas(m, Current(d, s))
        THEN Append(d[s], [text |-> MapVal(m, Current(d, s)), bg |-> "transparent",
                           hov |-> <<>>])
        ELSE d[s]]

\* content.js 109-127: revertChanges; the ledger is cleared and the handle reset
revertChanges(d, m) ==
    [dom |-> RevertDom(d, m), map |-> <<>>, rewriter |-> Null, threw |-> FALSE]

----------------------------------------------------------------------------
(* The sequential revision of the content script *)

\* 62: the loop's test of one element
SeqPassedOver(d, m, e) ==
    Length(Trim(El(d, e).text)) < SEQ_MIN_TEXT_LENGTH \/ MapHas(m, e)

\* 57: a sleep is due
SleepDue(c) == c.psy >= AI_BATCH_SIZE

\* 56-73: the loop from element idx up to its next await (a sleep, a rewrite
\* request) or its end
RECURSIVE SeqAdvance(_, _, _, _, _)
SeqAdvance(c, idx, d, m, rw) ==
    IF idx > Len(c.els) THEN Activated(c)
    ELSE IF SleepDue(c) THEN [c EXCEPT !.pc = "sleep", !.i = idx, !.yields = @ + 1]
    ELSE IF SeqPassedOver(d, m, c.els[idx]) \/ rw = Null
         THEN SeqAdvance(c, idx + 1, d, m, rw)
    ELSE [c EXCEPT !.pc = "rewrite", !.i = idx, !.batch = <<c.els[idx]>>,
                   !.origs = <<Trim(El(d, c.els[idx]).text)>>,
                   !.results = <<>>,
                   !.issued = Append(@, <<c.els[idx]>>)]

\* 50-54: after initializeAIAPIs; with no rewriter the run returns 0
SeqStart(c, d, m, rw) ==
    IF rw = Null THEN Activated([c EXCEPT !.count = 0])
    ELSE SeqAdvance([c EXCEPT !.els = querySelectorAll(d), !.count = 0, !.psy = 0],
                    1, d, m, rw)

\* 101-109: revertChanges replays the ledger in insertion order and stops
\* with a TypeError at the first element that has no parent; the ledger is
\* cleared only when the replay went through.
RECURSIVE SeqRevertFrom(_, _, _)
SeqRevertFrom(d, m, k) ==
    IF k > Len(m) THEN [dom |-> d, map |-> <<>>, threw |-> FALSE]
    ELSE IF ~Attached(d, m[k].key) THEN [dom |-> d, map |-> m, threw |-> TRUE]
    ELSE SeqRevertFrom(
            [d EXCEPT ![m[k].key[1]] =
                Append(@, [text |-> m[k].val, bg |-> "transparent", hov |-> <<>>])],
            m, k + 1)

SeqRevertChanges(d, m, rw) ==
    [rewriter |-> rw] @@ SeqRevertFrom(d, m, 1)

\* 121, and content.js 147: the answer to a deactivation
Deactivated(c) ==
    [Ended(c) EXCEPT !.resp = Append(@, Success(0, "DEACTIVATED"))]

----------------------------------------------------------------------------
(* The popup: the toggle button of part_001 (with the batched revision) and *)
(* of popup.js (with the sequential revision)                               *)

\* renderState: the button shows isActive and is enabled; part_001 18-19
\* also clears the error message.
renderState(p, isActive) ==
    [p EXCEPT !.on = isActive, !.disabled = FALSE,
              !.error = IF rev = "batched" THEN "" ELSE @]

\* background.js 12-13: data.isQuellActive || false
isQuellActive == storage = <<TRUE>>

\* The popup is opened, or closed and opened again: a new context whose
\* button is disabled while REQUEST_TOGGLE_STATE is out; the callbacks of
\* the old context are gone.
PopupOpen ==
    /\ storage # <<>>
    /\ popup' = [open |-> TRUE, on |-> FALSE, disabled |-> TRUE, checking |-> TRUE,
                 waiting |-> 0, error |-> "", answer |-> <<>>]
    /\ UNCHANGED <<workerVars, rev, hasRewriter, hasProofreader, storage, dom, hover, rewriter,
                   proofreader, sessions, originalTextMap, faults, bg, cs, ended>>

\* The popup is opened while no toggle request is in flight
PopupOpenIdle ==
    /\ \A r \in 1..Len(bg) : bg[r].pc = "closed"
    /\ popup.waiting = 0
    /\ PopupOpen

\* background.js 10-16 and the popup's callback: the state request is
\* answered from storage, or fails (lastError, no response); answer keeps
\* the response the callback got.
PopupState ==
    /\ popup.open /\ popup.checking
    /\ \E answered \in BOOLEAN :
        popup' = [renderState(popup, answered /\ isQuellActive)
                    EXCEPT !.checking = FALSE,
                           !.answer = IF answered THEN <<isQuellActive>> ELSE <<>>]
    /\ UNCHANGED <<workerVars, rev, hasRewriter, hasProofreader, storage, dom, hover, rewriter,
                   proofreader, sessions, originalTextMap, faults, bg, cs, ended>>

\* The click handler, and the background's listener up to its first await:
\* TOGGLE_QUELL with newState = !wasActive; storage.local.set is called.
\* part_001 65-66 clears the error message, popup.js does not.
PopupClick ==
    /\ popup.open /\ ~popup.disabled
    /\ Len(bg) < MaxToggles
    /\ Cardinality({r \in 1..Len(bg) : bg[r].pc # "closed"}) < MaxInFlight
    /\ bg' = Append(bg, [pc |-> "set", newState |-> ~popup.on, flagBefore |-> storage,
                         resp |-> <<>>])
    /\ cs' = Append(cs, IdleRun)
    /\ popup' = [popup EXCEPT !.disabled = TRUE, !.waiting = Len(bg) + 1,
                              !.error = IF rev = "batched" THEN "" ELSE @]
    /\ UNCHANGED <<workerVars, rev, hasRewriter, hasProofreader, storage, dom, hover, rewriter,
                   proofreader, sessions, originalTextMap, faults, ended>>

\* The callback of the click handler's sendMessage
PopupCallback(p, newState, response) ==
    IF response.success
    THEN renderState(p, newState)
    ELSE renderState([p EXCEPT !.error = "Action failed: " \o response.error], ~newState)

\* The handler of request r has ended with background record b: its response
\* reaches the popup that waits for it, or, when the handler ended without
\* one, the port closes and the callback runs with lastError set and no
\* response. A popup that was closed in between gets nothing.
Delivered(p, r, b) ==
    IF p.waiting # r THEN p
    ELSE [PopupCallback(p, b.newState,
                        IF b.pc = "dead" THEN Failure("Unknown communication error.")
                        ELSE b.resp[1])
            EXCEPT !.waiting = 0]

----------------------------------------------------------------------------
(* The background script: background.js (batched revision) and its        *)
(* revision with a tab check (sequential revision)                        *)

\* onInstalled
Install ==
    /\ storage = <<>>
    /\ storage' = <<FALSE>>
    /\ UNCHANGED <<workerVars, rev, hasRewriter, hasProofreader, dom, hover, rewriter, proofreader,
                   sessions, originalTextMap, faults, bg, cs, popup, ended>>

\* sendResponse of the background's handler
BgRespond(b, response) == [b EXCEPT !.pc = "done", !.resp = Append(@, response)]

\* An exception no try block of the handler encloses: the async function
\* rejects and sendResponse is never called.
BgUnhandled(b) == [b EXCEPT !.pc = "dead"]

\* The handlers of a request after the background's has ended: their
\* closures are gone.
ClosedBg == [pc |-> "closed", newState |-> FALSE, flagBefore |-> <<>>, resp |-> <<>>]
ClosedRun == [IdleRun EXCEPT !.pc = "closed"]

\* The background's handler of request r goes on as b, the content script's
\* being c; when b has ended, the popup's callback runs.
BgStep(r, b, c) ==
    IF b.pc \in {"done", "dead"}
    THEN /\ bg' = [bg EXCEPT ![r] = ClosedBg]
         /\ cs' = [cs EXCEPT ![r] = ClosedRun]
         /\ popup' = Delivered(popup, r, b)
         /\ ended' = [r |-> r, bg |-> b, cs |-> c, flag |-> storage]
    ELSE /\ bg' = [bg EXCEPT ![r] = b]
         /\ cs' = [cs EXCEPT ![r] = c]
         /\ UNCHANGED <<popup, ended>>

\* The handler goes on to the tab query whether the write settled or not
BgAfterSetUnwritten(b, written) == [b EXCEPT !.pc = "query"]

\* 24: storage.local.set settles; a rejection is outside every try block
BgAfterSet(b, written) ==
    IF written THEN [b EXCEPT !.pc = "query"] ELSE BgUnhandled(b)

BgStorageSet(r) ==
    /\ bg[r].pc = "set"
    /\ \E written \in BOOLEAN :
        /\ storage' = IF written THEN <<bg[r].newState>> ELSE storage
        /\ BgStep(r, BgAfterSet(bg[r], written), cs[r])
    /\ UNCHANGED <<workerVars, rev, hasRewriter, hasProofreader, dom, hover, rewriter, proofreader,
                   sessions, originalTextMap, faults>>

\* 27-34: tabs.query settles with a tab, with no tab, or rejects. In
\* background.js the query is outside the try block and tab.id inside it;
\* the revision with a tab check encloses both.
BgAfterQuery(b, outcome) ==
    IF outcome = "tab" THEN [b EXCEPT !.pc = "send"]
    ELSE IF rev = "batched"
         THEN IF outcome = "none"
              THEN BgRespond(b, Failure("Content Script Error"))
              ELSE BgUnhandled(b)
         ELSE BgRespond(b, Failure("Tab access failed"))

BgTabQuery(r) ==
    /\ bg[r].pc = "query"
    /\ \E outcome \in {"tab", "none", "reject"} :
        BgStep(r, BgAfterQuery(bg[r], outcome), cs[r])
    /\ UNCHANGED <<workerVars, rev, hasRewriter, hasProofreader, storage, dom, hover, rewriter,
                   proofreader, sessions, originalTextMap, faults>>

\* 42-45: tabs.sendMessage rejects (no content script in the tab)
BgCommFail(r) ==
    /\ bg[r].pc = "send"
    /\ cs[r].pc = "none"
    /\ BgStep(r, BgRespond(bg[r], Failure("Content Script Error")), cs[r])
    /\ UNCHANGED <<workerVars, rev, hasRewriter, hasProofreader, storage, dom, hover, rewriter,
                   proofreader, sessions, originalTextMap, faults>>

\* The relay with the count left out
RelayedWithoutCount(b, contentResponse) ==
    Success(0, IF b.newState THEN "ACTIVATED" ELSE "DEACTIVATED")

\* 37-41: the content script's response is relayed
Relayed(b, contentResponse) ==
    Success(contentResponse.changesMade,
            IF b.newState THEN "ACTIVATED" ELSE "DEACTIVATED")

\* The content script's handler of request r goes on as c; when it has
\* answered, the background's await of tabs.sendMessage resolves.
CsStep(r, c) ==
    BgStep(r, IF c.pc = "done" THEN BgRespond(bg[r], Relayed(bg[r], c.resp[1])) ELSE bg[r],
           c)

----------------------------------------------------------------------------
(* The content script's handler of RUN_FULL_QUELL *)

\* content.js 137-141: the answer when initializeRewriter returned false
InitFailed(c) ==
    [Ended(c) EXCEPT !.resp = Append(@, Failure("AI API initialization failed."))]

\* content.js 15-29, 134-143: an activation up to its first await
Activate(c) ==
    IF ~hasRewriter THEN InitFailed(c)
    ELSE IF rewriter = Null THEN [c EXCEPT !.pc = "create"]
    ELSE quellBiasOnPage(c, dom, originalTextMap, rewriter)

\* Sequential revision 20-33: initializeAIAPIs from the proofreader on, then the loop
SeqAfterRewriter(c, rw) ==
    IF proofreader = Null /\ hasProofreader THEN [c EXCEPT !.pc = "pcreate"]
    ELSE SeqStart(c, dom, originalTextMap, rw)

\* Sequential revision 20-23, 50, 116-117: an activation up to its first await
SeqActivate(c) ==
    IF rewriter = Null /\ hasRewriter THEN [c EXCEPT !.pc = "create"]
    ELSE SeqAfterRewriter(c, rewriter)

\* An activation request reaches the content script
CsActivate(r) ==
    /\ bg[r].pc = "send" /\ cs[r].pc = "none"
    /\ bg[r].newState
    /\ CsStep(r, IF rev = "batched"
                  THEN Activate([cs[r] EXCEPT !.isActive = TRUE])
                  ELSE SeqActivate([cs[r] EXCEPT !.isActive = TRUE]))
    /\ UNCHANGED <<workerVars, rev, hasRewriter, hasProofreader, storage, dom, hover, rewriter,
                   proofreader, sessions, originalTextMap, faults>>

\* content.js 146-147 and sequential revision 120-121: a deactivation
\* request reaches the content script; revertChanges runs at once.
Reverted ==
    IF rev = "batched"
    THEN revertChanges(dom, originalTextMap)
    ELSE SeqRevertChanges(dom, originalTextMap, rewriter)

CsDeactivate(r) ==
    /\ bg[r].pc = "send" /\ cs[r].pc = "none"
    /\ ~bg[r].newState
    /\ dom' = Reverted.dom
    /\ originalTextMap' = Reverted.map
    /\ rewriter' = Reverted.rewriter
    /\ CsStep(r, IF Reverted.threw THEN Caught(cs[r]) ELSE Deactivated(cs[r]))
    /\ UNCHANGED <<workerVars, rev, hasRewriter, hasProofreader, storage, hover, proofreader,
                   sessions, faults>>

\* content.js 22-26, sequential revision 22: Rewriter.create settles. The
\* batched revision answers a failure with success=false; in the sequential
\* revision the exception reaches the handler's catch.
CsCreateSettles(r) ==
    /\ cs[r].pc = "create"
    /\ \E created \in BOOLEAN :
        IF created
        THEN /\ sessions' = sessions + 1
             /\ rewriter' = sessions + 1
             /\ CsStep(r, IF rev = "batched"
                           THEN quellBiasOnPage(cs[r], dom, originalTextMap, sessions + 1)
                           ELSE SeqAfterRewriter(cs[r], sessions + 1))
        ELSE /\ UNCHANGED <<sessions, rewriter>>
             /\ CsStep(r, IF rev = "batched" THEN InitFailed(cs[r]) ELSE Caught(cs[r]))
    /\ UNCHANGED <<workerVars, rev, hasRewriter, hasProofreader, storage, dom, hover, proofreader,
                   originalTextMap, faults>>

\* Sequential revision 25-30: Proofreader.create settles; a failure leaves
\* the handle null.
CsProofreaderSettles(r) ==
    /\ cs[r].pc = "pcreate"
    /\ \E created \in BOOLEAN :
        proofreader' = IF created THEN 1 ELSE Null
    /\ CsStep(r, SeqStart(cs[r], dom, originalTextMap, rewriter))
    /\ UNCHANGED <<workerVars, rev, hasRewriter, hasProofreader, storage, dom, hover, rewriter,
                   sessions, originalTextMap, faults>>

\* What a rewrite request for text t settles with: a clean new text, or,
\* while faults are left, a rejection or any other text.
RewriteOutcomes(t) ==
    IF faults > 0 THEN RewriteOutputs(t) \cup {Fail} ELSE {CleanOutput(t)}

Cost(t, out) == IF out = CleanOutput(t) THEN 0 ELSE 1

\* content.js 91: the ledger entries the run has added, the ledger having
\* been m before its results were applied and being m1 after
Grown(c, m, m1) == [c EXCEPT !.added = @ + Len(m1) - Len(m)]

\* content.js 82-102: the batch's results are applied, the page becoming d;
\* a yield follows, or the loop goes on to its test.
AfterBatch(c, d, rw) ==
    LET c1 == [c EXCEPT !.count = @ + Cardinality(AppliedUnits(c)),
                        !.applied = @ \cup AppliedUnits(c),
                        !.failed = @ \cup FailedUnits(c),
                        !.same = @ \cup SameUnits(c)]
    IN  IF YieldFollows(c1)
        THEN [c1 EXCEPT !.pc = "yield", !.yields = @ + 1]
        ELSE LoopFrom(c1, c1.i + BATCH_SIZE, d, rw)

\* content.js 68-82: one rewrite request of the batch settles; when it is
\* the last, Promise.all resolves and the results are applied.
CsRewriteSettles(r) ==
    /\ rev = "batched"
    /\ cs[r].pc = "batch"
    /\ LET k == Len(cs[r].results) + 1
       IN  \E out \in RewriteOutcomes(cs[r].origs[k]) :
            LET c1 == [cs[r] EXCEPT !.results = Append(@, out)]
            IN  /\ faults' = faults - Cost(cs[r].origs[k], out)
                /\ IF k < Len(c1.batch)
                   THEN /\ CsStep(r, c1)
                        /\ UNCHANGED <<dom, originalTextMap>>
                   ELSE /\ dom' = ApplyDom(dom, c1)
                        /\ originalTextMap' = ApplyLedger(originalTextMap, c1, 1)
                        /\ CsStep(r, AfterBatch(Grown(c1, originalTextMap, originalTextMap'),
                                                 dom', rewriter))
    /\ UNCHANGED <<workerVars, rev, hasRewriter, hasProofreader, storage, hover, rewriter,
                   proofreader, sessions>>

\* content.js 99-101, 61-79: the yield ends and the loop goes on
CsYieldEnds(r) ==
    /\ cs[r].pc = "yield"
    /\ CsStep(r, LoopFrom(cs[r], cs[r].i + BATCH_SIZE, dom, rewriter))
    /\ UNCHANGED <<workerVars, rev, hasRewriter, hasProofreader, storage, dom, hover, rewriter,
                   proofreader, sessions, originalTextMap, faults>>

----------------------------------------------------------------------------
(* The sequential revision's loop *)

\* A proofread result that is no string
NonString == [pad |-> 0, len |-> 0, ver |-> 0 - 2]

\* What proofreader.proofread(t) settles with: a result object, or, while
\* faults are left, a rejection, the same string or a corrected string.
ProofreadOutcomes(t) ==
    IF faults > 0
    THEN {NonString, Fail, t, Text(0, t.len, t.ver + 1)}
    ELSE {NonString}

\* 76-82: finalOutput
FinalOutput(neutralText, proofreadResult) ==
    IF proofreadResult = NonString THEN neutralText ELSE proofreadResult

\* 84-92: the element's result is applied
SeqApplied(c, finalOutput) ==
    LET c1 == [c EXCEPT !.results = <<finalOutput>>]
    IN  [c1 EXCEPT !.count = @ + Cardinality(AppliedUnits(c1)),
                   !.applied = @ \cup AppliedUnits(c1),
                   !.same = @ \cup SameUnits(c1)]

\* 69-74, 93-95: the rewrite request settles; a rejection is caught and the
\* loop goes on with the next element.
SeqRewriteSettles(r) ==
    /\ rev = "sequential"
    /\ cs[r].pc = "rewrite"
    /\ \E out \in RewriteOutcomes(cs[r].origs[1]) :
        /\ faults' = faults - Cost(cs[r].origs[1], out)
        /\ IF out = Fail
           THEN /\ CsStep(r, SeqAdvance([cs[r] EXCEPT !.failed = @ \cup {cs[r].batch[1]}],
                                         cs[r].i + 1, dom, originalTextMap, rewriter))
                /\ UNCHANGED <<dom, originalTextMap>>
           ELSE IF proofreader # Null
           THEN /\ CsStep(r, [cs[r] EXCEPT !.pc = "proofread", !.psy = @ + 1,
                                            !.results = <<out>>])
                /\ UNCHANGED <<dom, originalTextMap>>
           ELSE LET c1 == SeqApplied([cs[r] EXCEPT !.psy = @ + 1], out)
                IN  /\ dom' = ApplyDom(dom, c1)
                    /\ originalTextMap' = ApplyLedger(originalTextMap, c1, 1)
                    /\ CsStep(r, SeqAdvance(Grown(c1, originalTextMap, originalTextMap'),
                                             c1.i + 1, dom', originalTextMap', rewriter))
    /\ UNCHANGED <<workerVars, rev, hasRewriter, hasProofreader, storage, hover, rewriter,
                   proofreader, sessions>>

\* 78-95: the proofread request settles; a rejection is caught by the same
\* catch as a rewrite rejection.
SeqProofreadSettles(r) ==
    /\ cs[r].pc = "proofread"
    /\ \E res \in ProofreadOutcomes(cs[r].results[1]) :
        /\ faults' = faults - (IF res = NonString THEN 0 ELSE 1)
        /\ IF res = Fail
           THEN /\ CsStep(r, SeqAdvance([cs[r] EXCEPT !.pfailed = @ \cup {cs[r].batch[1]}],
                                         cs[r].i + 1, dom, originalTextMap, rewriter))
                /\ UNCHANGED <<dom, originalTextMap>>
           ELSE LET c1 == SeqApplied(cs[r], FinalOutput(cs[r].results[1], res))
                IN  /\ dom' = ApplyDom(dom, c1)
                    /\ originalTextMap' = ApplyLedger(originalTextMap, c1, 1)
                    /\ CsStep(r, SeqAdvance(Grown(c1, originalTextMap, originalTextMap'),
                                             c1.i + 1, dom', originalTextMap', rewriter))
    /\ UNCHANGED <<workerVars, rev, hasRewriter, hasProofreader, storage, hover, rewriter,
                   proofreader, sessions>>

\* 57-60: the sleep ends
SeqSleepEnds(r) ==
    /\ cs[r].pc = "sleep"
    /\ CsStep(r, SeqAdvance([cs[r] EXCEPT !.psy = 0], cs[r].i, dom, originalTextMap,
                             rewriter))
    /\ UNCHANGED <<workerVars, rev, hasRewriter, hasProofreader, storage, dom, hover, rewriter,
                   proofreader, sessions, originalTextMap, faults>>

----------------------------------------------------------------------------
(* The pointer *)

\* content.js 34-41: the listeners of an element run in the order they
\* were added; each assigns the text and the colour it closes over.
RECURSIVE Dispatch(_, _, _)
Dispatch(el, event, k) ==
    IF k > Len(el.hov) THEN el
    ELSE Dispatch(
            IF event = "mouseenter"
            THEN [el EXCEPT !.text = el.hov[k].orig, !.bg = BIASED_COLOR]
            ELSE [el EXCEPT !.text = el.hov[k].neutral, !.bg = HIGHLIGHT_COLOR],
            event, k + 1)

MouseEnter(s) ==
    /\ hover = 0
    /\ hover' = s
    /\ dom' = [dom EXCEPT ![s][Len(dom[s])] = Dispatch(@, "mouseenter", 1)]
    /\ UNCHANGED <<workerVars, rev, hasRewriter, hasProofreader, storage, rewriter, proofreader,
                   sessions, originalTextMap, faults, bg, cs, popup, ended>>

MouseLeave ==
    /\ hover # 0
    /\ hover' = 0
    /\ dom' = [dom EXCEPT ![hover][Len(dom[hover])] = Dispatch(@, "mouseleave", 1)]
    /\ UNCHANGED <<workerVars, rev, hasRewriter, hasProofreader, storage, rewriter, proofreader,
                   sessions, originalTextMap, faults, bg, cs, popup, ended>>

----------------------------------------------------------------------------
(* service-worker.js: the context-menu pipeline. A text is its length, a   *)
(* streamed text the number of its chunks.                                 *)

MENU_SELECTION_ID == "biasQuellSelection"
MENU_ARTICLE_ID == "biasQuellArticle"

\* The lengths of the text a click brings: around the minimum, and a long one
RawLengths == {SW_MIN_TEXT_LENGTH - 1, SW_MIN_TEXT_LENGTH, 600}

\* 8-10: chrome.tabs.sendMessage is called at once; run is the click whose
\* handler sends the message
sendMessageToTab(log, run, action, message, originalText, finalText) ==
    Append(log, [run |-> run, action |-> action, message |-> message,
                 originalText |-> originalText, finalText |-> finalText])

\* 11-19
sendError(log, run, message) ==
    sendMessageToTab(log, run, "display_error", message, 0, 0)
sendStatus(log, run, message) ==
    sendMessageToTab(log, run, "status_update", message, 0, 0)
sendResult(log, run, originalText, finalText) ==
    sendMessageToTab(log, run, "display_result", "", originalText, finalText)

\* 92: the handler of a click before it has run
NewHandler(menuItemId) ==
    [pc |-> "clicked", menuItemId |-> menuItemId, started |-> FALSE, rawText |-> 0,
     promptSession |-> Null, rewriterSession |-> Null,
     cleanFacts |-> 0, finalRewrittenText |-> 0, left |-> 0,
     calls |-> <<>>, created |-> <<>>, destroyed |-> <<>>, failure |-> "",
     ptotal |-> 0, rtotal |-> 0]

\* finally with the prompt session's destroy only
FinallyPromptOnly(w) ==
    [w EXCEPT !.pc = "done",
              !.destroyed = @ \o (IF w.promptSession # Null THEN <<"prompt">> ELSE <<>>)]

\* 68-71: finally; the function returns
Finally(w) ==
    [w EXCEPT !.pc = "done",
              !.destroyed = @ \o (IF w.promptSession # Null THEN <<"prompt">> ELSE <<>>)
                              \o (IF w.rewriterSession # Null THEN <<"rewriter">> ELSE <<>>)]

\* The catch with a result of what there is so far sent after the error
ThrownWithPartial(w, log, run, stage, message) ==
    [w |-> Finally([w EXCEPT !.failure = stage]),
     tab |-> sendResult(sendError(log, run, "AI Processing failed. Error: " \o message),
                        run, w.rawText, w.finalRewrittenText)]

\* 65-71: an exception in the try block at the call named stage: catch, finally
Thrown(w, log, run, stage, message) ==
    [w |-> Finally([w EXCEPT !.failure = stage]),
     tab |-> sendError(log, run, "AI Processing failed. Error: " \o message)]

TooShortText == "Text is too short. Please select or extract substantial article content."

\* The test of the length with the minimum one less
TooShortBelow(rawText) == rawText < SW_MIN_TEXT_LENGTH - 1

\* 27: the test of the length
TooShort(rawText) == rawText < SW_MIN_TEXT_LENGTH

\* 22-34: processTextWithAI up to its first await
processTextWithAI(w, log, run, rawText) ==
    LET w1 == [w EXCEPT !.started = TRUE, !.rawText = rawText]
    IN  IF TooShort(rawText)
        THEN Thrown(w1, log, run, "length", TooShortText)
        ELSE [w |-> [w1 EXCEPT !.pc = "pcreate",
                               !.calls = Append(@, "LanguageModel.create")],
              tab |-> sendStatus(log, run, "Phase 1/2: Initializing Bias Quell AI model...")]

\* The handler of click run goes on as st.w, the messages sent being st.tab
WorkerStep(run, st) ==
    /\ worker' = [worker EXCEPT ![run] = st.w]
    /\ tab' = st.tab
    /\ UNCHANGED toggleVars

\* 92-100: a context-menu item is clicked; the selection's text comes with
\* the click, the article's is asked of the content script
MenuClick ==
    /\ Len(worker) < MaxClicks
    /\ LET run == Len(worker) + 1
       IN  \E menuItemId \in {MENU_SELECTION_ID, MENU_ARTICLE_ID} :
            IF menuItemId = MENU_SELECTION_ID
            THEN \E selectionText \in RawLengths :
                    LET st == processTextWithAI(NewHandler(menuItemId), tab, run,
                                                selectionText)
                    IN  worker' = Append(worker, st.w) /\ tab' = st.tab
            ELSE /\ worker' = Append(worker, [NewHandler(menuItemId) EXCEPT !.pc = "extract"])
                 /\ tab' = sendStatus(tab, run,
                        "Attempting to extract full article with Readability...")
    /\ UNCHANGED toggleVars

\* 103-112: extract_full_article is answered with a text, or with none (0),
\* or the request rejects (0)
ExtractSettles(run) ==
    /\ worker[run].pc = "extract"
    /\ \E text \in RawLengths \cup {0} :
        WorkerStep(run,
            IF text # 0
            THEN processTextWithAI(worker[run], tab, run, text)
            ELSE [w |-> [worker[run] EXCEPT !.pc = "done"],
                  tab |-> sendError(tab, run, "Extraction failed")])

\* 34-42: LanguageModel.create settles
PromptCreateSettles(run) ==
    /\ worker[run].pc = "pcreate"
    /\ \E created \in BOOLEAN :
        WorkerStep(run,
            IF created
            THEN [w |-> [worker[run] EXCEPT !.pc = "pstream", !.promptSession = 1,
                                            !.created = Append(@, "prompt"),
                                            !.calls = Append(@, "promptStreaming")],
                  tab |-> sendStatus(tab, run,
                            "Phase 1/2: Analyzing article for facts (Prompt API)...")]
            ELSE Thrown(worker[run], tab, run, "LanguageModel.create", "create"))

\* 42-44: promptStreaming settles with a stream of n chunks, or rejects
PromptStreamOpens(run) ==
    /\ worker[run].pc = "pstream"
    /\ \E n \in (0..MaxChunks) \cup {Undefined} :
        WorkerStep(run,
            IF n # Undefined
            THEN [w |-> [worker[run] EXCEPT !.pc = "pchunk", !.left = n, !.ptotal = n],
                  tab |-> tab]
            ELSE Thrown(worker[run], tab, run, "promptStreaming", "prompt"))

\* 44-54: the stream gives its next chunk, or fails, or has ended: the
\* status of phase 2 is sent and Rewriter.create called
PromptChunk(run) ==
    /\ worker[run].pc = "pchunk"
    /\ \E arrived \in BOOLEAN :
        WorkerStep(run,
            IF worker[run].left = 0
            THEN [w |-> [worker[run] EXCEPT !.pc = "rcreate",
                                            !.calls = Append(@, "Rewriter.create")],
                  tab |-> sendStatus(tab, run,
                            "Phase 2/2: Polishing and formatting facts (Rewriter API)...")]
            ELSE IF arrived
            THEN [w |-> [worker[run] EXCEPT !.cleanFacts = @ + 1, !.left = @ - 1],
                  tab |-> tab]
            ELSE Thrown(worker[run], tab, run, "promptStreaming", "prompt"))

\* 51-56: Rewriter.create settles; rewriteStreaming is called with cleanFacts
RewriterCreateSettles(run) ==
    /\ worker[run].pc = "rcreate"
    /\ \E created \in BOOLEAN :
        WorkerStep(run,
            IF created
            THEN [w |-> [worker[run] EXCEPT !.pc = "rstream", !.rewriterSession = 1,
                                            !.created = Append(@, "rewriter"),
                                            !.calls = Append(@, "rewriteStreaming")],
                  tab |-> tab]
            ELSE Thrown(worker[run], tab, run, "Rewriter.create", "create"))

\* 56-58: rewriteStreaming settles with a stream of n chunks, or rejects
RewriteStreamOpens(run) ==
    /\ worker[run].pc = "rstream"
    /\ \E n \in (0..MaxChunks) \cup {Undefined} :
        WorkerStep(run,
            IF n # Undefined
            THEN [w |-> [worker[run] EXCEPT !.pc = "rchunk", !.left = n, !.rtotal = n],
                  tab |-> tab]
            ELSE Thrown(worker[run], tab, run, "rewriteStreaming", "rewrite"))

\* 58-71: the stream gives its next chunk, or fails, or has ended: the
\* result is sent and the sessions are destroyed
RewriteChunk(run) ==
    /\ worker[run].pc = "rchunk"
    /\ \E arrived \in BOOLEAN :
        WorkerStep(run,
            IF worker[run].left = 0
            THEN [w |-> Finally(worker[run]),
                  tab |-> sendResult(tab, run, worker[run].rawText,
                                     worker[run].finalRewrittenText)]
            ELSE IF arrived
            THEN [w |-> [worker[run] EXCEPT !.finalRewrittenText = @ + 1, !.left = @ - 1],
                  tab |-> tab]
            ELSE Thrown(worker[run], tab, run, "rewriteStreaming", "rewrite"))

----------------------------------------------------------------------------
(* Init *)

Pages(r) ==
    UNION {[1..n -> {<<NewElement(t)>> : t \in PageTexts(r)}] : n \in 0..MaxUnits}

InitCommon ==
    /\ rev \in {"batched", "sequential"}
    /\ storage = <<>>
    /\ hover = 0
    /\ rewriter = Null
    /\ proofreader = Null
    /\ sessions = 0
    /\ originalTextMap = <<>>
    /\ bg = <<>>
    /\ cs = <<>>
    /\ popup = [open |-> FALSE, on |-> FALSE, disabled |-> TRUE, checking |-> FALSE,
                waiting |-> 0, error |-> "", answer |-> <<>>]
    /\ ended = [r |-> 0, bg |-> ClosedBg, cs |-> ClosedRun, flag |-> <<>>]
    /\ worker = <<>>
    /\ tab = <<>>

Init ==
    /\ InitCommon
    /\ hasRewriter \in BOOLEAN
    /\ hasProofreader \in (IF rev = "batched" THEN {FALSE} ELSE BOOLEAN)
    /\ dom \in Pages(rev)
    /\ faults = MaxFaults

----------------------------------------------------------------------------
(* Specifications *)

Requests == 1..Len(bg)

\* The steps of the scripts that every specification has
Handlers ==
    \/ Install
    \/ PopupState
    \/ PopupClick
    \/ \E r \in Requests : BgStorageSet(r)
    \/ \E r \in Requests : BgTabQuery(r)
    \/ \E r \in Requests : BgCommFail(r)
    \/ \E r \in Requests : CsActivate(r)
    \/ \E r \in Requests : CsDeactivate(r)
    \/ \E r \in Requests : CsCreateSettles(r)
    \/ \E r \in Requests : CsRewriteSettles(r)
    \/ \E r \in Requests : SeqRewriteSettles(r)

\* Pages of at most MaxUnits units, with the pointer, and a popup that may
\* be closed and opened at any moment
Next ==
    \/ Handlers
    \/ \E r \in Requests : CsProofreaderSettles(r)
    \/ \E r \in Requests : SeqProofreadSettles(r)
    \/ PopupOpen
    \/ MouseLeave
    \/ \E s \in Slots : MouseEnter(s)

Spec == Init /\ [][Next]_vars

\* Pages of units that all qualify, of the sizes around the multiples of the
\* batch size and of MaxPage units, no Proofreader, and a popup that is
\* opened only while no request is in flight: one handler runs at a time,
\* through all its batches.
PageSizes ==
    {0, 1, BATCH_SIZE, BATCH_SIZE + 1, 2 * BATCH_SIZE, 2 * BATCH_SIZE + 1, MaxPage}

BigPages(r) ==
    {[s \in 1..n |-> <<NewElement(Text(0, MinLength(r), 0))>>] : n \in PageSizes}

InitBatch ==
    /\ InitCommon
    /\ hasRewriter = TRUE
    /\ hasProofreader = FALSE
    /\ dom \in BigPages(rev)
    /\ faults = MaxFaults

NextBatch ==
    \/ Handlers
    \/ PopupOpenIdle
    \/ \E r \in Requests : CsYieldEnds(r)
    \/ \E r \in Requests : SeqSleepEnds(r)

SpecBatch == InitBatch /\ [][NextBatch]_vars

\* The batched revision on a page of one unit more than a batch, all units
\* qualifying, and a popup that may be closed and opened at any moment: runs
\* of two batches overlap each other and a deactivation. Every rewrite
\* request is answered with a clean new text.
InitRace ==
    /\ InitCommon
    /\ rev = "batched"
    /\ hasRewriter = TRUE
    /\ hasProofreader = FALSE
    /\ dom = [s \in 1..(BATCH_SIZE + 1) |-> <<NewElement(Text(0, MIN_TEXT_LENGTH, 0))>>]
    /\ faults = 0

NextRace ==
    \/ Install
    \/ PopupOpen
    \/ PopupState
    \/ PopupClick
    \/ \E r \in Requests : BgStorageSet(r)
    \/ \E r \in Requests : BgTabQuery(r)
    \/ \E r \in Requests : CsActivate(r)
    \/ \E r \in Requests : CsDeactivate(r)
    \/ \E r \in Requests : CsCreateSettles(r)
    \/ \E r \in Requests : CsRewriteSettles(r)
    \/ \E r \in Requests : CsYieldEnds(r)

SpecRace == InitRace /\ [][NextRace]_vars

\* Pages of MaxHoverUnits units that qualify, with the pointer, no
\* Proofreader, and a popup that is opened only while no request is in
\* flight: one handler runs at a time while the pointer moves.
InitHover ==
    /\ InitCommon
    /\ hasRewriter = TRUE
    /\ hasProofreader = FALSE
    /\ dom = [s \in 1..MaxHoverUnits |-> <<NewElement(Text(0, MinLength(rev), 0))>>]
    /\ faults = MaxFaults

NextHover ==
    \/ Handlers
    \/ PopupOpenIdle
    \/ MouseLeave
    \/ \E s \in Slots : MouseEnter(s)

SpecHover == InitHover /\ [][NextHover]_vars

\* The service worker alone: context-menu clicks whose handlers overlap
InitWorker ==
    /\ InitCommon
    /\ rev = "batched"
    /\ hasRewriter = TRUE
    /\ hasProofreader = FALSE
    /\ dom = <<>>
    /\ faults = 0

Clicks == 1..Len(worker)

NextWorker ==
    \/ MenuClick
    \/ \E run \in Clicks : ExtractSettles(run)
    \/ \E run \in Clicks : PromptCreateSettles(run)
    \/ \E run \in Clicks : PromptStreamOpens(run)
    \/ \E run \in Clicks : PromptChunk(run)
    \/ \E run \in Clicks : RewriterCreateSettles(run)
    \/ \E run \in Clicks : RewriteStreamOpens(run)
    \/ \E run \in Clicks : RewriteChunk(run)

SpecWorker == InitWorker /\ [][NextWorker]_vars

----------------------------------------------------------------------------
(* What the properties below speak of *)

\* Every request issued so far has ended, the last one issued last
Quiet == ended.r = Len(bg) /\ \A r \in Requests : bg[r].pc = "closed"

\* The request that ended last was an activation that reached the content
\* script, a deactivation that did
ActivationEnded == ended.r # 0 /\ ended.bg.newState /\ ended.cs.pc = "done"
DeactivationEnded == ended.r # 0 /\ ~ended.bg.newState /\ ended.cs.pc = "done"

\* The units of the batches a run has issued, in the order of their issue
RECURSIVE Flatten(_)
Flatten(batches) ==
    IF batches = <<>> THEN <<>> ELSE Head(batches) \o Flatten(Tail(batches))

\* The text every unit of a page of SpecBatch or SpecRace has at first
FirstText == Text(0, MinLength(rev), 0)

\* The content script's handler of request r as a step leaves it, also when
\* the step ends the request
RunAfter(r) ==
    IF bg[r].pc # "closed" /\ bg'[r].pc = "closed" THEN ended'.cs ELSE cs'[r]

----------------------------------------------------------------------------
(* The claims *)

\* C1: after activation runs that mutated units, one call of revertChanges
\* restores the text of every mutated unit to exactly the text it had before
\* it was mutated and leaves the ledger empty, and a further revertChanges
\* changes no text and raises no error. Stated for the states where a
\* deactivation was the last request to end and no request is in flight.
C1_RevertRestoresTexts ==
    (Quiet /\ DeactivationEnded) =>
        /\ ended.cs.resp[1].success
        /\ originalTextMap = <<>>
        /\ \A s \in Slots : El(dom, Current(dom, s)).text = FirstText

\* The activation that ended last found no Rewriter in the content script,
\* or could not create its session
RewriterUnavailable ==
    /\ ActivationEnded
    /\ \/ ~hasRewriter
       \/ ended.cs.resp[1].error = "AI API initialization failed."
       \/ rev = "sequential" /\ ended.cs.resp[1].error = "Critical execution error"

\* C2: a TOGGLE_QUELL with newState = true whose content script has no
\* Rewriter, or cannot create its session, is answered to the popup with
\* success = false and a non-empty error string.
C2_UnavailableIsReported ==
    RewriterUnavailable =>
        /\ Len(ended.bg.resp) = 1
        /\ ~ended.bg.resp[1].success
        /\ ended.bg.resp[1].error # ""

\* The request that ended last failed: no response, a failure response, or
\* a failure response of the content script
ToggleFailed ==
    \/ ended.bg.resp = <<>>
    \/ ~ended.bg.resp[1].success
    \/ ended.cs.pc = "done" /\ ~ended.cs.resp[1].success

\* C3: when a TOGGLE_QUELL request ends in a failure, the persisted flag has
\* the value it had before the request. Stated for the first request of a
\* behaviour, which no other request's write can interfere with.
C3_FailureKeepsFlag ==
    (ended.r # 0 /\ Len(bg) = 1 /\ ToggleFailed) => ended.flag = ended.bg.flagBefore

\* The response to an activation whose content pipeline changed k units, and
\* the flag, the ledger and the page after it
C4_Response ==
    (ActivationEnded /\ ended.cs.resp[1].success) =>
        /\ ended.bg.resp = <<Success(Cardinality(ended.cs.applied), "ACTIVATED")>>
        /\ ended.flag = <<TRUE>>
        /\ Quiet => /\ storage = <<TRUE>>
                    /\ ended.cs.applied \subseteq MapKeys(originalTextMap)
                    /\ \A e \in ended.cs.applied :
                        El(dom, e).text # MapVal(originalTextMap, e)

\* A step in which REQUEST_TOGGLE_STATE is answered
C4_StateAnswer ==
    (popup.checking /\ ~popup'.checking /\ popup'.answer # <<>>)
        => popup'.answer = storage

C5_ExactlyOneResponse ==
    ended.r # 0 =>
        /\ Len(ended.bg.resp) = 1
        /\ ended.cs.pc = "done" => Len(ended.cs.resp) = 1

\* Some run of quellBiasOnPage is suspended at an await of its loop
RunSuspended ==
    \E r \in Requests : cs[r].pc \in {"batch", "yield", "rewrite", "proofread", "sleep"}

\* A step that, while a run is suspended, neither clears the ledger nor
\* resets the rewriter handle nor replaces a unit
C6_NoRevertStep ==
    RunSuspended =>
        /\ originalTextMap' = <<>> => originalTextMap = <<>>
        /\ rewriter' = Null => rewriter = Null
        /\ \A s \in Slots : Len(dom'[s]) = Len(dom[s])

\* C6: while an activation run is suspended at an await of quellBiasOnPage,
\* no step clears the ledger, resets the rewriter handle or reverts a unit:
\* a deactivation that arrives waits for the run to finish.
C6_RevertWaitsForActivation == [][C6_NoRevertStep]_vars

\* C7: no rewrite request is issued for, and no mutation applied to, an
\* element whose trimmed text is shorter than the minimum: every request in
\* flight and every ledger entry holds a text of at least the minimum length.
C7_NoRequestBelowMinimum ==
    /\ \A r \in Requests : \A k \in 1..Len(cs[r].origs) :
            Length(cs[r].origs[k]) >= MinLength(rev)
    /\ \A i \in 1..Len(originalTextMap) :
            Length(originalTextMap[i].val) >= MinLength(rev)

\* C8, as claimed: an element whose trimmed text has exactly the minimum
\* length is too short, and no rewrite request is issued for it.
C8_MinimumIsTooShort ==
    \A r \in Requests : \A k \in 1..Len(cs[r].origs) :
        Length(cs[r].origs[k]) # MinLength(rev)

\* C8, amended: an element whose trimmed text has exactly the minimum length
\* is selected. On a page whose units all have that length, the first
\* activation, when it ends with success, has issued a rewrite request for
\* every unit of the page, in document order.
C8_MinimumIsSelected ==
    (ActivationEnded /\ ended.r = 1 /\ ended.cs.resp[1].success) =>
        /\ Length(Trim(FirstText)) = MinLength(rev)
        /\ Flatten(ended.cs.issued) = [s \in 1..Len(dom) |-> <<s, 1>>]

C8_Witness ==
    /\ ActivationEnded /\ ended.r = 1 /\ ended.cs.resp[1].success
    /\ Len(dom) = BATCH_SIZE + 1
    /\ Len(Flatten(ended.cs.issued)) = BATCH_SIZE + 1

Ceil(n, b) == (n + b - 1) \div b

\* The sizes of the batches a run has issued
BatchSizes(c) == [j \in 1..Len(c.issued) |-> Len(c.issued[j])]

\* C9: for n selected units and batch size b, a run of quellBiasOnPage that
\* returns has issued ceil(n/b) batches, consecutive in selection order, each
\* of b units but the last, and has yielded ceil(n/b) - 1 times (never for
\* n = 0); for n = 37, b = 15: batches of 15, 15 and 7, and 2 yields.
C9_BatchesAndYields ==
    (ActivationEnded /\ rev = "batched" /\ ended.cs.resp[1].success) =>
        LET c == ended.cs
            n == Len(c.els)
            b == BATCH_SIZE
        IN  /\ Len(c.issued) = Ceil(n, b)
            /\ Flatten(c.issued) = c.els
            /\ \A j \in 1..Len(c.issued) :
                Len(c.issued[j]) = IF j < Len(c.issued) THEN b
                                   ELSE n - b * (Len(c.issued) - 1)
            /\ c.yields = IF n = 0 THEN 0 ELSE Ceil(n, b) - 1
            /\ (n = 37 /\ b = 15) => BatchSizes(c) = <<15, 15, 7>> /\ c.yields = 2

C9_Witness ==
    /\ ActivationEnded /\ rev = "batched" /\ ended.cs.resp[1].success
    /\ Len(ended.cs.els) = 37
    /\ BatchSizes(ended.cs) = <<15, 15, 7>>
    /\ ended.cs.yields = 2

\* Run c has issued a rewrite request for unit e, or passed it over because
\* the ledger held it
Processed(c, e) ==
    \/ \E k \in 1..Len(Flatten(c.issued)) : Flatten(c.issued)[k] = e
    \/ MapHas(originalTextMap, e)

\* C10: when the rewrite request of a unit fails, the run does not change
\* the unit (no ledger entry, no text change, no count), every other unit of
\* the batch and of the later batches is still processed, and the run ends
\* with a success response.
C10_FailedUnitIsSkipped ==
    (ActivationEnded /\ ended.cs.failed # {}) =>
        LET c == ended.cs
        IN  /\ c.resp = <<Success(c.count, "ACTIVATED")>>
            /\ ended.bg.resp = <<Success(c.count, "ACTIVATED")>>
            /\ c.failed \cap c.applied = {}
            /\ c.count = Cardinality(c.applied)
            /\ Quiet =>
                /\ \A e \in c.failed :
                    /\ ~MapHas(originalTextMap, e)
                    /\ El(dom, e) = NewElement(FirstText)
                           \/ El(dom, e) = [text |-> FirstText, bg |-> "transparent",
                                            hov |-> <<>>]
                /\ \A k \in 1..Len(c.els) : Processed(c, c.els[k])
                /\ \A e \in c.applied : MapHas(originalTextMap, e)

C10_Witness ==
    /\ ActivationEnded /\ Quiet
    /\ Len(ended.cs.issued) = 3
    /\ \E e \in ended.cs.failed : e[1] <= BATCH_SIZE
    /\ ended.cs.applied = {ended.cs.els[k] : k \in 1..Len(ended.cs.els)} \ ended.cs.failed
    /\ ended.cs.count = MaxPage - 1

\* A step in which results are applied changes nothing of a unit whose final
\* text, trimmed, is the text its request was issued with
C11_SameStep ==
    \A r \in Requests : \A e \in RunAfter(r).same \ cs[r].same :
        /\ El(dom', e) = El(dom, e)
        /\ MapHas(originalTextMap', e) = MapHas(originalTextMap, e)
        /\ MapHas(originalTextMap, e) =>
                MapVal(originalTextMap', e) = MapVal(originalTextMap, e)
        /\ e \notin RunAfter(r).applied
        /\ RunAfter(r).count - cs[r].count =
                Cardinality(RunAfter(r).applied \ cs[r].applied)

\* C11: when the final text of a unit, trimmed, equals the unit's trimmed
\* original text, the run creates no ledger entry for the unit, does not
\* count it, and leaves its visible text, its highlight marker and its hover
\* handlers as they were.
C11_UnchangedResultChangesNothing == [][C11_SameStep]_vars

C11_Witness ==
    /\ ActivationEnded /\ Quiet
    /\ Len(ended.cs.els) = MaxPage
    /\ Cardinality(ended.cs.same) = 1
    /\ Cardinality(ended.cs.applied) = MaxPage - 1
    /\ \A e \in ended.cs.same :
            El(dom, e) = NewElement(FirstText) /\ ~MapHas(originalTextMap, e)

\* A step that is a run of revertChanges
RevertStep ==
    \E r \in Requests :
        /\ bg[r].pc = "send" /\ cs[r].pc = "none" /\ ~bg[r].newState
        /\ RunAfter(r).pc = "done"

\* The units request r issues a rewrite request for in a step
NewlyIssued(r) ==
    UNION {{RunAfter(r).issued[j][k] : k \in 1..Len(RunAfter(r).issued[j])} :
                j \in (Len(cs[r].issued) + 1)..Len(RunAfter(r).issued)}

\* No two entries of the ledger have the same unit
C12_OneEntryPerUnit ==
    \A i, j \in 1..Len(originalTextMap) :
        originalTextMap[i].key = originalTextMap[j].key => i = j

\* A step other than a revert keeps every ledger entry and the element of
\* its unit, and issues no rewrite request for the unit
C12_LedgerStep ==
    ~RevertStep =>
        \A i \in 1..Len(originalTextMap) :
            LET e == originalTextMap[i].key
            IN  /\ i <= Len(originalTextMap') /\ originalTextMap'[i] = originalTextMap[i]
                /\ El(dom', e) = El(dom, e)
                /\ \A r \in Requests : e \notin NewlyIssued(r)

\* C12: with one run at a time, a run that starts after another has
\* completed, with no revert in between, issues no rewrite request for a unit
\* in the ledger and leaves every ledger entry and the unit's element as
\* they are; the ledger never holds two entries for one unit.
C12_SecondRunSkipsLedger == []C12_OneEntryPerUnit /\ [][C12_LedgerStep]_vars

C12_Witness ==
    /\ ActivationEnded /\ Quiet /\ ended.r = 2
    /\ Len(originalTextMap) = MaxPage
    /\ Len(Flatten(ended.cs.issued)) = 1
    /\ ended.cs.added = 1

\* C13: the count a run of quellBiasOnPage returns is the number of units
\* whose final text, trimmed, differs from the trimmed text their request was
\* issued with, over all batches of the run, and is the number of ledger
\* entries the run has added.
C13_CountIsLedgerGrowth ==
    (ActivationEnded /\ ended.cs.resp[1].success) =>
        LET c == ended.cs
            requested == {Flatten(c.issued)[k] : k \in 1..Len(Flatten(c.issued))}
        IN  /\ c.resp[1].changesMade = Cardinality(requested \ (c.same \cup c.failed \cup c.pfailed))
            /\ c.resp[1].changesMade = c.added

\* C14: after a deactivation has run revertChanges, no session handle that
\* existed before it is left: with no request in flight, the rewriter handle
\* and the proofreader handle are null, so that the next activation creates
\* its sessions anew.
C14_RevertResetsHandles ==
    (Quiet /\ DeactivationEnded /\ ended.cs.resp[1].success) =>
        rewriter = Null /\ proofreader = Null

\* The Rewriter sessions created and not destroyed: the content script
\* destroys none (content.js 125 only resets the handle)
LiveRewriters == sessions

\* C15: at every moment at most one Rewriter session has been created and
\* not yet destroyed.
C15_AtMostOneSession == LiveRewriters <= 1

\* The messages with one of the given actions that the handler of click run
\* has sent to the tab, in order
Sent(run, actions) ==
    SelectSeq(tab, LAMBDA m : m.run = run /\ m.action \in actions)

Terminal == {"display_result", "display_error"}

TooShortError ==
    [run |-> 0, action |-> "display_error",
     message |-> "AI Processing failed. Error: " \o TooShortText,
     originalText |-> 0, finalText |-> 0]

\* C16: processTextWithAI with a text shorter than 50 characters creates no
\* session and makes no AI call, and sends one display_error with the
\* too-short message, no display_result and no status of its own; a text of
\* 50 characters is not rejected.
C16_TooShortIsRejected ==
    \A run \in Clicks :
        LET w == worker[run]
        IN  w.started =>
                IF w.rawText < SW_MIN_TEXT_LENGTH
                THEN /\ w.pc = "done"
                     /\ w.calls = <<>> /\ w.created = <<>>
                     /\ Sent(run, Terminal) = <<[TooShortError EXCEPT !.run = run]>>
                     /\ Len(Sent(run, {"status_update"})) =
                            IF w.menuItemId = MENU_ARTICLE_ID THEN 1 ELSE 0
                ELSE w.calls # <<>>

C16_Witness ==
    \E run \in Clicks :
        /\ worker[run].started /\ worker[run].rawText = SW_MIN_TEXT_LENGTH - 1
        /\ worker[run].menuItemId = MENU_ARTICLE_ID
        /\ Len(Sent(run, Terminal)) = 1
        /\ \E other \in Clicks : worker[other].rawText = SW_MIN_TEXT_LENGTH
                                   /\ worker[other].created # <<>>

\* The AI calls of processTextWithAI, in order
AllCalls == <<"LanguageModel.create", "promptStreaming", "Rewriter.create",
              "rewriteStreaming">>

\* The calls made when the call named stage fails
CallsUpTo(stage) ==
    SubSeq(AllCalls, 1,
           CASE stage = "length" -> 0
             [] stage = "LanguageModel.create" -> 1
             [] stage = "promptStreaming" -> 2
             [] stage = "Rewriter.create" -> 3
             [] stage = "rewriteStreaming" -> 4)

\* C17: a run of processTextWithAI that has ended has sent one terminal
\* message, its last message: display_result, with the raw text and the whole
\* of both streams, when every stage succeeded, and else display_error, with
\* no call made after the one that failed; a run that has not ended has sent
\* none.
C17_OneTerminalMessage ==
    \A run \in Clicks :
        LET w == worker[run]
            t == Sent(run, Terminal)
        IN  w.started =>
                IF w.pc # "done" THEN t = <<>> /\ w.failure = ""
                ELSE /\ Len(t) = 1
                     /\ t[1] = Sent(run, Terminal \cup {"status_update"})
                                    [Len(Sent(run, Terminal \cup {"status_update"}))]
                     /\ IF w.failure = ""
                        THEN /\ t[1].action = "display_result"
                             /\ t[1].originalText = w.rawText
                             /\ t[1].finalText = w.rtotal
                             /\ w.cleanFacts = w.ptotal
                             /\ w.calls = AllCalls
                        ELSE /\ t[1].action = "display_error"
                             /\ t[1].message # ""
                             /\ w.calls = CallsUpTo(w.failure)

C17_Witness ==
    \E ok, ko \in Clicks :
        /\ worker[ok].pc = "done" /\ worker[ok].failure = ""
        /\ Sent(ok, {"display_result"}) # <<>>
        /\ worker[ok].finalRewrittenText = MaxChunks
        /\ worker[ko].pc = "done" /\ worker[ko].failure = "rewriteStreaming"
        /\ worker[ko].finalRewrittenText > 0
        /\ Sent(ko, {"display_result"}) = <<>>

\* The unit of slot s is mutated and not reverted: its element is in the
\* ledger and has its listeners
Mutated(s) ==
    MapHas(originalTextMap, Current(dom, s)) /\ El(dom, Current(dom, s)).hov # <<>>

\* Text t is a rewritten text of the original: trimmed, and another text
Rewritten(t, original) == t = Trim(t) /\ t # original

\* A step seen from the unit of slot s: a pointer-enter on the mutated unit
\* shows the recorded original with the biased marker, a pointer-leave a
\* rewritten text with the highlight; with no event on it the mutated unit
\* keeps what it shows, unless it is reverted; a unit that is mutated in
\* the step shows a rewritten text with the highlight; an event on another
\* unit changes nothing of this one.
C18_UnitStep(s) ==
    LET e == Current(dom, s)
        original == MapVal(originalTextMap, e)
    IN  /\ (Mutated(s) /\ hover = 0 /\ hover' = s) =>
                /\ El(dom', e).text = original
                /\ El(dom', e).bg = BIASED_COLOR
        /\ (Mutated(s) /\ hover = s /\ hover' = 0) =>
                /\ Rewritten(El(dom', e).text, original)
                /\ El(dom', e).bg = HIGHLIGHT_COLOR
        /\ (Mutated(s) /\ hover' = hover /\ ~RevertStep) =>
                /\ El(dom', e) = El(dom, e)
                /\ MapHas(originalTextMap', e) /\ MapVal(originalTextMap', e) = original
        /\ (~MapHas(originalTextMap, e) /\ MapHas(originalTextMap', e)) =>
                /\ Rewritten(El(dom', e).text, MapVal(originalTextMap', e))
                /\ El(dom', e).bg = HIGHLIGHT_COLOR
                /\ El(dom', e).hov # <<>>
        /\ (hover' # hover /\ hover # s /\ hover' # s) => dom'[s] = dom[s]

\* C18: a mutated unit that has not been reverted shows the recorded
\* original text with the biased marker after a pointer-enter, and the
\* rewritten text with the highlight marker after a pointer-leave and as
\* long as no event has occurred since it was mutated; a pointer event on one
\* unit changes no other unit.
C18_HoverSwapsTexts == [][\A s \in Slots : C18_UnitStep(s)]_vars

C18_Witness ==
    /\ Quiet /\ ActivationEnded
    /\ hover = 1
    /\ Mutated(1) /\ Mutated(2)
    /\ El(dom, Current(dom, 1)).text = FirstText
    /\ El(dom, Current(dom, 1)).bg = BIASED_COLOR
    /\ Rewritten(El(dom, Current(dom, 2)).text, FirstText)
    /\ El(dom, Current(dom, 2)).bg = HIGHLIGHT_COLOR

\* An element has the highlight or the biased marker, or listeners
Marked(el) == el.bg \in {HIGHLIGHT_COLOR, BIASED_COLOR} \/ el.hov # <<>>

\* Every element in the page that has a marker or listeners is in the ledger
C19_MarkedIsInLedger ==
    \A s \in Slots :
        Marked(El(dom, Current(dom, s))) => MapHas(originalTextMap, Current(dom, s))

\* revertChanges puts an element without marker and listeners, showing the
\* recorded text, in the place of every ledger element in the page; a
\* pointer event changes nothing of an element that is not in the ledger
C19_Step ==
    /\ RevertStep =>
            \A s \in Slots :
                MapHas(originalTextMap, Current(dom, s)) =>
                    /\ Current(dom', s) # Current(dom, s)
                    /\ El(dom', Current(dom', s)) =
                            [text |-> MapVal(originalTextMap, Current(dom, s)),
                             bg |-> "transparent", hov |-> <<>>]
    /\ hover' # hover =>
            \A s \in Slots :
                ~MapHas(originalTextMap, Current(dom, s)) => dom'[s] = dom[s]

\* C19: after revertChanges every unit that was in the ledger has no
\* highlight marker and no hover behaviour: a later pointer-enter or
\* pointer-leave on the unit in the page does not change what it shows, also
\* when the unit was showing its original text under the pointer at the
\* revert.
C19_RevertRemovesHover == []C19_MarkedIsInLedger /\ [][C19_Step]_vars

C19_Witness ==
    /\ Quiet /\ DeactivationEnded
    /\ originalTextMap = <<>>
    /\ hover = 0
    /\ \E s \in Slots :
            /\ Len(dom[s]) = 2
            /\ dom[s][1].bg = BIASED_COLOR
            /\ dom[s][2] = [text |-> dom[s][1].hov[1].orig, bg |-> "transparent",
                            hov |-> <<>>]

\* A unit whose proofread call failed has had its rewritten text compared
\* with the original all the same: it is changed and counted, or the texts
\* were the same
C20_FailedProofread ==
    ActivationEnded =>
        ended.cs.pfailed \subseteq (ended.cs.applied \cup ended.cs.same)

\* The step in which a proofread call settles with a result that is no
\* string uses the rewritten text as the final text; the step in which the
\* creation of the proofreader fails goes on with the rewrite stage
C20_DegradeStep ==
    \A r \in Requests :
        /\ (cs[r].pc = "proofread" /\ RunAfter(r) # cs[r] /\ faults' = faults) =>
                LET e == cs[r].batch[1]
                    neutralText == Trim(cs[r].results[1])
                IN  IF neutralText = cs[r].origs[1]
                    THEN e \in RunAfter(r).same /\ El(dom', e) = El(dom, e)
                    ELSE /\ e \in RunAfter(r).applied
                         /\ El(dom', e).text = neutralText
                         /\ RunAfter(r).count = cs[r].count + 1
        /\ (cs[r].pc = "pcreate" /\ RunAfter(r) # cs[r] /\ proofreader' = Null
                /\ rewriter # Null) =>
                /\ RunAfter(r).pc \in {"rewrite", "done"}
                /\ RunAfter(r).pc = "done" =>
                        RunAfter(r).resp = <<Success(0, "ACTIVATED")>>

\* C20: in the revision with a proofreader, a unit whose proofread call
\* fails or gives a result that is no string gets the rewritten text as its
\* final text, applied and counted when it differs from the original; when
\* the creation of the proofreader fails the activation goes on with the
\* rewrite stage alone.
C20_ProofreadDegrades == []C20_FailedProofread /\ [][C20_DegradeStep]_vars

----------------------------------------------------------------------------
(* C21: the persisted flag during a toggle request                        *)

\* The content-side operation of request r is in flight: RUN_FULL_QUELL has
\* been sent and the background awaits the response
InFlight(r) == bg[r].pc = "send"

\* The claim as it is worded: while the content-side operation of a request
\* is in flight, the persisted flag, which is what a state request is
\* answered with, is that request's newState.
C21_FlagIsNewState ==
    \A r \in 1..Len(bg) : InFlight(r) => storage = <<bg[r].newState>>

\* The write of another toggle request settles in this step
OtherWrite(r) ==
    \E q \in (1..Len(bg)) \ {r} : bg[q].pc = "set" /\ bg'[q].pc # "set"

C21_Step ==
    /\ \A r \in 1..Len(bg) :
        \* the write has settled with newState when the handler goes on
        /\ bg[r].pc = "set" /\ bg'[r].pc = "query" => storage' = <<bg[r].newState>>
        \* the tab query and the message come after it
        /\ bg'[r].pc = "query" => bg[r].pc \in {"set", "query"}
        /\ bg'[r].pc = "send" => bg[r].pc \in {"query", "send"}
        \* from the write to the response the flag stays newState unless
        \* the write of another request settles
        /\ /\ bg[r].pc \in {"query", "send"}
           /\ storage = <<bg[r].newState>>
           /\ storage' # storage
           => OtherWrite(r)
    \* a state request that is answered is answered with the persisted flag
    /\ popup.checking /\ ~popup'.checking /\ popup'.answer # <<>>
        => popup'.answer = storage /\ storage' = storage

\* C21: the write of isQuellActive = newState has settled before the tab is
\* looked up and RUN_FULL_QUELL is sent, and a state request is answered
\* with the flag persisted last: newState, unless the write of another
\* toggle request has settled since.
C21_WriteBeforeMessage == [][C21_Step]_vars

\* A popup opened during an activation in flight was answered with newState
C21_Witness ==
    \E r \in 1..Len(bg) :
        /\ InFlight(r) /\ bg[r].newState
        /\ cs[r].pc \notin {"none", "closed"}
        /\ popup.open /\ ~popup.checking /\ popup.waiting = 0
        /\ popup.answer = <<TRUE>>

----------------------------------------------------------------------------
(* C22: the batches of one run *)

\* The units of batch j of run c, by the loop's slice (content.js 61-62)
Slice(c, j) ==
    SubSeq(c.els, BATCH_SIZE * (j - 1) + 1, Min(BATCH_SIZE * j, Len(c.els)))

\* Unit e carries the mutation of content.js 91-94 on the page and in the
\* ledger after the step
MutationApplied(e) ==
    /\ MapHas(originalTextMap', e)
    /\ Attached(dom', e)
    /\ El(dom', e).bg = HIGHLIGHT_COLOR
    /\ El(dom', e).hov # <<>>
    /\ El(dom', e).text # MapVal(originalTextMap', e)

\* A step seen from request r: when its run issues a batch, it issues the
\* whole slice at once with none of its requests settled, every request of
\* the batch before has settled, and every result of that batch that
\* counts is on the page and in the ledger.
C22_RunStep(r) ==
    LET c  == cs[r]
        c1 == RunAfter(r)
        n  == Len(c.issued)
    IN  /\ Len(c1.issued) \in {n, n + 1}
        /\ c.pc = "batch" /\ Len(c.results) + 1 < Len(c.batch) => c1.issued = c.issued
        /\ Len(c1.issued) = n + 1 =>
            /\ c1.issued[n + 1] = Slice(c1, n + 1)
            /\ c1.pc = "batch" /\ c1.batch = c1.issued[n + 1] /\ c1.results = <<>>
            /\ n >= 1 =>
                /\ \/ c.pc = "yield"
                   \/ c.pc = "batch" /\ Len(c.results) + 1 = Len(c.batch)
                /\ \A k \in 1..Len(c.issued[n]) :
                    LET e == c.issued[n][k]
                    IN  \/ e \in c1.failed \cup c1.same
                        \/ e \in c1.applied /\ MutationApplied(e)

\* C22: within one activation run of the batched revision, batch k+1 is
\* issued only after every rewrite request of batch k has settled and the
\* results of batch k are on the page and in the ledger, and the requests
\* of a batch are all issued in one step, before any of them has settled.
C22_BatchesInTurn == [][rev = "batched" => \A r \in Requests : C22_RunStep(r)]_vars

\* The third batch of a run has just been issued, the first two batches
\* having settled with at least one failure
C22_Witness ==
    \E r \in Requests :
        /\ rev = "batched" /\ cs[r].pc = "batch" /\ cs[r].results = <<>>
        /\ Len(cs[r].issued) = 3
        /\ cs[r].failed # {}
        /\ Cardinality(cs[r].applied \cup cs[r].failed \cup cs[r].same) = 2 * BATCH_SIZE

----------------------------------------------------------------------------
(* C23: the popup after its toggle request *)

\* The callback of the popup's TOGGLE_QUELL request r runs in this step
CallbackRuns(r) ==
    /\ popup.waiting = r
    /\ bg[r].pc # "closed" /\ bg'[r].pc = "closed"

\* The request whose handler ended as b has failed: the port closed without
\* a response (lastError), or the response has success = false
RequestFailed(b) == b.pc = "dead" \/ ~b.resp[1].success

C23_Step ==
    \A r \in Requests :
        CallbackRuns(r) =>
            /\ ~popup'.disabled
            /\ IF RequestFailed(ended'.bg)
               THEN /\ popup'.error # ""
                    /\ popup'.on = ~ended'.bg.newState
                    /\ popup'.on = popup.on
               ELSE popup'.on = ended'.bg.newState

\* C23: when the popup's TOGGLE_QUELL request fails, the popup shows an
\* error string and the toggle in the state it had before the click, with
\* the button enabled; when it succeeds, the toggle shows newState.
C23_FailureIsShown == [][C23_Step]_vars

----------------------------------------------------------------------------
(* C24: the status messages of processTextWithAI *)

\* The number of status messages the handler of click run has sent in log
Statuses(log, run) ==
    Len(SelectSeq(log, LAMBDA m : m.run = run /\ m.action = "status_update"))

\* The AI calls the handler of click run had made before the step
CallsBefore(run) == IF run \in Clicks THEN worker[run].calls ELSE <<>>

\* The handler of click run makes the first call of a stage in this step
StageBegins(run, call) ==
    /\ \A k \in 1..Len(CallsBefore(run)) : CallsBefore(run)[k] # call
    /\ \E k \in 1..Len(worker'[run].calls) : worker'[run].calls[k] = call

\* The stream of a stage has been read to its end in this step
PromptStageEnds(run) ==
    run \in Clicks /\ worker[run].pc = "pchunk" /\ worker'[run].pc = "rcreate"
RewriteStageEnds(run) ==
    /\ run \in Clicks /\ worker[run].pc = "rchunk"
    /\ worker'[run].pc = "done" /\ worker'[run].failure = ""

\* The handler of click run sends a status message in this step
StatusSent(run) == Statuses(tab', run) > Statuses(tab, run)

\* No status message of a run comes after its display_result
StatusesBeforeResult(run) ==
    \A i, j \in 1..Len(tab') :
        /\ tab'[i].run = run /\ tab'[i].action = "display_result"
        /\ tab'[j].run = run /\ tab'[j].action = "status_update"
        => j < i

C24_Step ==
    \A run \in 1..Len(worker') :
        /\ StageBegins(run, "LanguageModel.create") => StatusSent(run)
        /\ PromptStageEnds(run) => StatusSent(run)
        /\ StageBegins(run, "Rewriter.create") => StatusSent(run)
        /\ RewriteStageEnds(run) => StatusSent(run)
        /\ StatusesBeforeResult(run)

\* C24: in processTextWithAI the prompt stage and the rewrite stage each
\* send a status_update before the stage executes and another after it has
\* executed, and every status message of a run is sent before that run's
\* display_result.
C24_StatusBeforeAndAfter == [][C24_Step]_vars

----------------------------------------------------------------------------
(* C25: the sessions of processTextWithAI *)

\* How many times name is in the sequence q
Count(q, name) == Cardinality({k \in 1..Len(q) : q[k] = name})

SessionNames == {"prompt", "rewriter"}

\* C25: a run of processTextWithAI that has ended, with a result or with an
\* error, has destroyed every session it created once, and none it did not
\* create; a run that has not ended has destroyed none, and it creates each
\* session at most once, the prompt session first.
C25_SessionsDestroyedOnce ==
    \A run \in Clicks :
        LET w == worker[run]
        IN  /\ w.created \in {<<>>, <<"prompt">>, <<"prompt", "rewriter">>}
            /\ (w.promptSession # Null) = (Count(w.created, "prompt") = 1)
            /\ (w.rewriterSession # Null) = (Count(w.created, "rewriter") = 1)
            /\ IF w.pc = "done"
               THEN \A name \in SessionNames :
                        Count(w.destroyed, name) = Count(w.created, name)
               ELSE w.destroyed = <<>>

\* One run has ended with a result and both sessions destroyed, another
\* with an error after Rewriter.create failed and the prompt session
\* destroyed
C25_Witness ==
    \E ok, ko \in Clicks :
        /\ worker[ok].pc = "done" /\ worker[ok].failure = ""
        /\ worker[ok].destroyed = <<"prompt", "rewriter">>
        /\ worker[ko].pc = "done" /\ worker[ko].failure = "Rewriter.create"
        /\ worker[ko].created = <<"prompt">> /\ worker[ko].destroyed = <<"prompt">>

----------------------------------------------------------------------------
(* C26: what the ledger records *)

\* Text t is a unit's text as the page's author wrote it, trimmed
AuthorsText(t) == t.ver = 0 /\ t = Trim(t)

\* C26: under every interleaving of activations, deactivations and pointer
\* events, every ledger entry maps its unit to the trimmed text the unit had
\* before the extension first modified it, never to a rewritten text.
C26_LedgerHoldsOriginals ==
    \A i \in 1..Len(originalTextMap) : AuthorsText(originalTextMap[i].val)

----------------------------------------------------------------------------
(* C27: the relay of the content script's response *)

\* The content script of the request that ended last has answered
ContentAnswered == ended.r # 0 /\ ended.cs.pc = "done" /\ ended.cs.resp # <<>>

\* C27: the background answers a TOGGLE_QUELL request with success = true
\* only when the content script's response to RUN_FULL_QUELL had
\* success = true; a content-side response with success = false reaches the
\* popup as a failure with an error string.
C27_FailureIsRelayed ==
    /\ (ended.r # 0 /\ ended.bg.resp # <<>> /\ ended.bg.resp[1].success)
        => ContentAnswered /\ ended.cs.resp[1].success
    /\ (ContentAnswered /\ ~ended.cs.resp[1].success)
        => /\ ended.bg.resp # <<>>
           /\ ~ended.bg.resp[1].success
           /\ ended.bg.resp[1].error # ""

----------------------------------------------------------------------------
(* C28: the persisted flag and the page *)

\* No toggle request is in flight
NoneInFlight == \A r \in Requests : bg[r].pc = "closed"

\* The attached element of slot s shows a rewritten text
ShowsRewritten(s) == El(dom, Current(dom, s)).text.ver # 0

\* C28: whenever no toggle request is in flight, a persisted flag
\* isQuellActive = false implies that the ledger is empty and that no unit
\* of the page shows a rewritten text.
C28_OffMeansReverted ==
    (NoneInFlight /\ storage = <<FALSE>>) =>
        /\ originalTextMap = <<>>
        /\ \A s \in Slots : ~ShowsRewritten(s)

----------------------------------------------------------------------------
(* C29: the units a run issues requests for *)

\* quellBiasOnPage of request r runs its selection in this step
RunStarts(r) ==
    /\ cs[r].pc \in {"none", "create"}
    /\ \/ RunAfter(r).pc \in {"batch", "yield"}
       \/ /\ RunAfter(r).pc = "done" /\ RunAfter(r).isActive
          /\ RunAfter(r).resp[1].success

\* Element e is in the sequence q
InSeq(q, e) == \E k \in 1..Len(q) : q[k] = e

\* The sequence q is the selection on the page and the ledger of before the
\* step: the attached elements whose trimmed text has the minimum length
\* and that the ledger does not hold, in document order
IsSelection(q) ==
    /\ \A s \in Slots :
        InSeq(q, Current(dom, s)) <=>
            /\ Length(Trim(El(dom, Current(dom, s)).text)) >= MIN_TEXT_LENGTH
            /\ ~MapHas(originalTextMap, Current(dom, s))
    /\ \A k \in 1..Len(q) : q[k] = Current(dom, q[k][1])
    /\ \A k, l \in 1..Len(q) : k < l => q[k][1] < q[l][1]

C29_RunStep(r) ==
    LET c  == cs[r]
        c1 == RunAfter(r)
        n  == Len(Flatten(c1.issued))
    IN  /\ IF RunStarts(r) THEN IsSelection(c1.els) ELSE c1.els = c.els
        /\ n <= Len(c1.els) /\ Flatten(c1.issued) = SubSeq(c1.els, 1, n)
        /\ \A j \in 1..Len(c1.issued) : c1.issued[j] = Slice(c1, j)
        /\ (c1.pc = "done" /\ c1.isActive /\ c1.resp[1].success) => n = Len(c1.els)

\* C29: an activation run of the batched revision selects the units whose
\* trimmed text has at least the minimum length and that are not in the
\* ledger when it starts; it issues its requests batch by batch in the
\* order of the selection, for no other unit, and when it returns it has
\* issued one request for every selected unit.
C29_OneRequestPerSelectedUnit ==
    [][rev = "batched" => \A r \in Requests : C29_RunStep(r)]_vars

\* An activation has returned after one request for each of the units it
\* selected, on a page where the ledger held other units when it started
C29_Witness ==
    /\ ActivationEnded /\ rev = "batched" /\ ended.cs.resp[1].success
    /\ Len(ended.cs.els) >= 1 /\ Len(ended.cs.els) < Len(dom)
    /\ Flatten(ended.cs.issued) = ended.cs.els
    /\ \E s \in Slots : MapHas(originalTextMap, Current(dom, s))
                          /\ ~InSeq(ended.cs.els, Current(dom, s))

----------------------------------------------------------------------------
(* C30: the handle at a rewrite call *)

\* The run of request r comes to the rewrite calls of a batch in this step:
\* at its start with a selection that is not empty, or when its yield ends
ReachesRewrite(r) ==
    \/ RunStarts(r) /\ RunAfter(r).els # <<>>
    \/ cs[r].pc = "yield" /\ RunAfter(r).pc # "yield"

\* The handle refers to a session that was created and not discarded
HandleIsLive == rewriter' # Null /\ rewriter' \in 1..sessions'

\* C30: whenever the content script invokes rewrite, the handle refers to a
\* session that was created and not discarded: under any interleaving of
\* activations and deactivations, no activation run comes to a rewrite call
\* with the handle reset to null by a concurrent revertChanges.
C30_HandleIsLiveAtRewrite ==
    [][rev = "batched" => \A r \in Requests : ReachesRewrite(r) => HandleIsLive]_vars

====
